---- MODULE Spec2Model ----
(***************************************************************************)
(* Model of the dotfiles backup utility (src/src/main.rs).                 *)
(*                                                                         *)
(* A string is a sequence of one-character strings, so that format!,       *)
(* Path::join, Path::strip_prefix and the operating system's path          *)
(* resolution are computed on the text of a path, as the program does.     *)
(* The filesystem is a function from resolved paths (sequences of entry    *)
(* names below the root) to nodes: DIR or the content of a regular file.   *)
(***************************************************************************)
EXTENDS Naturals, Sequences, FiniteSets

VARIABLES
    fs,       \* the filesystem: resolved path -> DIR | file content
    repo,     \* the repository path of the invocation (cli.repo or default_repo)
    cmd,      \* "none" | "store" | "stage": cli.command of the current run
    pkg,      \* the loop variable of `for pkg in pkgs`: the package drawn last
    idx,      \* number of packages the for loop has drawn from pkgs so far
    status,   \* "idle" | "running" | "ok" | "err_clap" | "err_delete" |
              \* "err_copy" | "panic_dest" | "panic_src" | "panic_unwrap"
    runs,     \* number of invocations started so far
    steps,    \* number of loop iterations made so far, over all invocations
    delRes,   \* what delete_all returned in the last iteration: "none" | "ok" | "err"
    copyRes,  \* how copy_all ended in the last iteration: "none" | "ok" | "err" |
              \* "panic_dest" | "panic_src"
    stored,   \* the last completed store not yet followed by another change
    found     \* the last direct application of find_pkg_path

vars == <<fs, repo, cmd, pkg, idx, status, runs, steps, delRes, copyRes, stored, found>>

(***************************************************************************)
(* Bounds of the model.                                                    *)
(***************************************************************************)
\* Longest path, in components, the filesystem accepts (stands for PATH_MAX:
\* a longer path makes mkdir / copy fail with ENAMETOOLONG).
MaxDepth == 7
\* Number of invocations of the program in one behaviour.
MaxRuns == 2
\* Number of packages processed in one behaviour, over all invocations.
MaxSteps == 2
\* Largest number of convention paths present at once in the resolver's
\* input filesystems.
MaxPresent == 2

DIR == "dir"

(***************************************************************************)
(* Strings.                                                                *)
(***************************************************************************)
\* The text split at every "/" (empty pieces kept).
Split(s) ==
    LET seps == {0, Len(s) + 1} \cup {i \in 1..Len(s) : s[i] = "/"}
        nth(k) == CHOOSE i \in seps : Cardinality({j \in seps : j < i}) = k - 1
    IN [k \in 1..(Cardinality(seps) - 1) |-> SubSeq(s, nth(k) + 1, nth(k + 1) - 1)]

is_absolute(p) == Len(p) > 0 /\ p[1] = "/"

\* Path::components: repeated separators and "." components are dropped.
\* (A leading "." of a relative path and ".." do not occur in the inputs.)
components(p) == SelectSeq(Split(p), LAMBDA c : c # <<>> /\ c # <<".">>)

RECURSIVE JoinNames(_)
JoinNames(cs) ==
    IF cs = <<>> THEN <<>>
    ELSE IF Len(cs) = 1 THEN cs[1]
    ELSE cs[1] \o <<"/">> \o JoinNames(Tail(cs))

\* Path::join (PathBuf::push): an absolute argument replaces the path,
\* otherwise a separator is added unless the path already ends with one.
join(base, s) ==
    IF is_absolute(s) THEN s
    ELSE IF base = <<>> THEN s
    ELSE IF base[Len(base)] = "/" THEN base \o s
    ELSE base \o <<"/">> \o s

\* Path::strip_prefix: component-wise; None when base is no prefix.
strip_prefix(p, base) ==
    LET cp == components(p)
        cb == components(base)
    IN IF is_absolute(p) = is_absolute(base) /\ Len(cb) <= Len(cp)
          /\ SubSeq(cp, 1, Len(cb)) = cb
       THEN [some |-> TRUE, path |-> JoinNames(SubSeq(cp, Len(cb) + 1, Len(cp)))]
       ELSE [some |-> FALSE, path |-> <<>>]

\* Path::parent of an absolute path with at least one component.
parent(p) ==
    LET cp == components(p)
    IN <<"/">> \o JoinNames(SubSeq(cp, 1, Len(cp) - 1))

(***************************************************************************)
(* Filesystem primitives (the operating system, as std::fs sees it).       *)
(***************************************************************************)
IsPrefix(a, b) == Len(a) <= Len(b) /\ SubSeq(b, 1, Len(a)) = a

\* stat(2): the resolved location of an absolute path, walking the text
\* component by component; every component that is walked through must be
\* a directory. NoEnt marks "does not resolve".
NoEnt == << <<"?">> >>

RECURSIVE Walk(_, _, _)
Walk(f, raw, cur) ==
    IF raw = <<>> THEN (IF cur \in DOMAIN f THEN cur ELSE NoEnt)
    ELSE IF cur \notin DOMAIN f \/ f[cur] # DIR THEN NoEnt
    ELSE LET c == Head(raw)
         IN IF c = <<>> \/ c = <<".">> THEN Walk(f, Tail(raw), cur)
            ELSE IF c = <<".", ".">>
                 THEN Walk(f, Tail(raw),
                           IF cur = <<>> THEN cur ELSE SubSeq(cur, 1, Len(cur) - 1))
            ELSE Walk(f, Tail(raw), Append(cur, c))

Stat(f, p) == Walk(f, Split(p), <<>>)

exists(f, p) == Stat(f, p) # NoEnt
is_dir(f, p) == exists(f, p) /\ f[Stat(f, p)] = DIR
is_file(f, p) == exists(f, p) /\ f[Stat(f, p)] # DIR

\* The nodes at and below a resolved location.
Under(f, loc) == {q \in DOMAIN f : IsPrefix(loc, q)}

Remove(f, gone) == [q \in DOMAIN f \ gone |-> f[q]]

\* The characters of the names in use, in collating order.
Alphabet ==
    <<".", "/", "c", "d", "e", "f", "g", "h", "i", "l", "n", "o", "r", "s", "t",
      "v", "w", "x">>

Code(ch) == CHOOSE i \in 1..Len(Alphabet) : Alphabet[i] = ch

\* a sorts before b (a # b), character by character.
Before(a, b) ==
    \E i \in 1..(Len(a) + 1) :
        /\ \A j \in 1..(i - 1) : j <= Len(b) /\ a[j] = b[j]
        /\ i <= Len(b)
        /\ (i = Len(a) + 1 \/ Code(a[i]) < Code(b[i]))

\* The orders in which a directory may list its entries.
Orders == {"ascending", "descending"}

\* fs::read_dir: the names of the entries of a directory, as the sequence
\* in which the iterator yields them under the given order.
read_dir(f, p, ord) ==
    LET loc == Stat(f, p)
        names == {q[Len(q)] : q \in {r \in DOMAIN f : Len(r) = Len(loc) + 1 /\ IsPrefix(loc, r)}}
        first(a, b) == IF ord = "ascending" THEN Before(a, b) ELSE Before(b, a)
    IN [k \in 1..Cardinality(names) |->
          CHOOSE n \in names : Cardinality({m \in names : first(m, n)}) = k - 1]

\* fs::create_dir_all: creates the directory and its missing ancestors.
\* Fails, changing nothing, when a component is a regular file or the
\* path is longer than the filesystem accepts.
create_dir_all(f, p) ==
    LET cp == components(p)
        pre == {SubSeq(cp, 1, n) : n \in 0..Len(cp)}
    IN IF Len(cp) > MaxDepth \/ \E q \in pre : q \in DOMAIN f /\ f[q] # DIR
       THEN [fs |-> f, res |-> "err"]
       ELSE [fs |-> [q \in DOMAIN f \cup pre |-> IF q \in DOMAIN f THEN f[q] ELSE DIR],
             res |-> "ok"]

\* fs::copy of a regular file to a destination whose parent exists.
fs_copy(f, src, dest) ==
    LET cd == components(dest)
    IN IF Len(cd) > MaxDepth \/ ~is_dir(f, parent(dest)) \/ is_dir(f, dest)
       THEN [fs |-> f, res |-> "err"]
       ELSE [fs |-> [q \in DOMAIN f \cup {cd} |-> IF q = cd THEN f[Stat(f, src)] ELSE f[q]],
             res |-> "ok"]

(***************************************************************************)
(* Tree Mirror: delete_all and copy_all.  Each returns the set of outcomes *)
(* the call can have, [fs |-> filesystem afterwards, res |-> result].      *)
(* A removal can fail for reasons outside the model (permissions, entry in *)
(* use), so delete_all has failing outcomes wherever it removes something; *)
(* a copy fails where the filesystem refuses it (a regular file in the way *)
(* of a directory, a path that is too long).                               *)
(***************************************************************************)
\* What a failed remove_dir_all may already have removed: nothing, or
\* everything below the directory (the directory itself is left).
PartlyRemoved(f, loc) == {{}, Under(f, loc) \ {loc}}

\* Variant: directories are not removed (remove_file only).
delete_all_files_only(f, path) ==
    IF exists(f, path) /\ is_file(f, path)
    THEN {[fs |-> Remove(f, {Stat(f, path)}), res |-> "ok"], [fs |-> f, res |-> "err"]}
    ELSE {[fs |-> f, res |-> "ok"]}

delete_all(f, path) ==
    IF exists(f, path) /\ is_dir(f, path)
    THEN {[fs |-> Remove(f, Under(f, Stat(f, path))), res |-> "ok"]}
         \cup {[fs |-> Remove(f, D), res |-> "err"] : D \in PartlyRemoved(f, Stat(f, path))}
    ELSE IF exists(f, path) /\ is_file(f, path)
    THEN {[fs |-> Remove(f, {Stat(f, path)}), res |-> "ok"], [fs |-> f, res |-> "err"]}
    ELSE {[fs |-> f, res |-> "ok"]}

RECURSIVE copy_all(_, _, _, _)
RECURSIVE copy_entries(_, _, _, _, _)

\* The for loop of copy_all over read_dir(src): entries holds the entries
\* not yet visited; the first failing entry ends the loop (the ? operator).
copy_entries(f, src, dest, entries, ord) ==
    IF entries = <<>> THEN {[fs |-> f, res |-> "ok"]}
    ELSE UNION { IF o.res = "ok"
                 THEN copy_entries(o.fs, src, dest, Tail(entries), ord)
                 ELSE {o}
                 : o \in copy_all(f, join(src, Head(entries)),
                                  join(dest, Head(entries)), ord) }

\* ord: the order in which the directories list their entries.
copy_all(f, src, dest, ord) ==
    IF exists(f, dest) THEN {[fs |-> f, res |-> "panic_dest"]}
    ELSE IF ~exists(f, src) THEN {[fs |-> f, res |-> "panic_src"]}
    ELSE IF is_dir(f, src)
    THEN LET made == create_dir_all(f, dest)
         IN IF made.res = "err" THEN {[fs |-> f, res |-> "err"]}
            ELSE copy_entries(made.fs, src, dest, read_dir(made.fs, src, ord), ord)
    ELSE LET made == create_dir_all(f, parent(dest))
         IN IF made.res = "err" THEN {[fs |-> f, res |-> "err"]}
            ELSE {fs_copy(made.fs, src, dest)}

(***************************************************************************)
(* Path Resolver: find_pkg_path.                                           *)
(***************************************************************************)
NoPath == [some |-> FALSE, path |-> <<>>]
Some(p) == [some |-> TRUE, path |-> p]

suffixes ==
    << <<"r", "c">>, <<".", "d">>, <<".", "c", "o", "n", "f">>,
       <<".", "c", "o", "n", "f", ".", "d">>, <<".", "t", "o", "m", "l">>,
       <<".", "x", "m", "l">>, <<".", "j", "s", "o", "n">>,
       <<".", "y", "m", "l">>, <<".", "l", "u", "a">> >>

check(f, path) == IF exists(f, path) THEN Some(path) ELSE NoPath

\* `for s in suffixes.iter()`: the first suffix, from the i-th on, for
\* which dir/<stem><s> exists.
RECURSIVE for_suffixes(_, _, _, _)
for_suffixes(f, dir, stem, i) ==
    IF i > Len(suffixes) THEN NoPath
    ELSE LET c == check(f, join(dir, stem \o suffixes[i]))
         IN IF c.some THEN c ELSE for_suffixes(f, dir, stem, i + 1)

\* Variant: ~/.config/pkg is tried before the suffixed names in ~.
find_pkg_path_config_first(f, home, p) ==
    LET dotpkg == <<".">> \o p
        dotconfig == join(home, <<".", "c", "o", "n", "f", "i", "g">>)
        c1 == check(f, join(home, dotpkg))
        c2 == for_suffixes(f, home, dotpkg, 1)
        c3 == check(f, join(dotconfig, p))
        c4 == for_suffixes(f, dotconfig, p, 1)
    IN IF c1.some THEN c1
       ELSE IF c3.some THEN c3
       ELSE IF c2.some THEN c2
       ELSE c4

find_pkg_path(f, home, p) ==
    LET dotpkg == <<".">> \o p
        dotconfig == join(home, <<".", "c", "o", "n", "f", "i", "g">>)
        c1 == check(f, join(home, dotpkg))
        c2 == for_suffixes(f, home, dotpkg, 1)
        c3 == check(f, join(dotconfig, p))
        c4 == for_suffixes(f, dotconfig, p, 1)
    IN IF c1.some THEN c1
       ELSE IF c2.some THEN c2
       ELSE IF c3.some THEN c3
       ELSE c4

(***************************************************************************)
(* Command Orchestrator: the body of the two for loops of run().  Each     *)
(* returns the outcomes of one iteration: res is "skip" (continue),        *)
(* "done" (the iteration completed), or the way the run ends.              *)
(***************************************************************************)
CopyRes(r) == IF r = "ok" THEN "done" ELSE IF r = "err" THEN "err_copy" ELSE r

Outcome(f, r, d, c) == [fs |-> f, res |-> r, del |-> d, cp |-> c]

\* Variant: the old backup is deleted before the package is looked up.
store_pkg_delete_first(f, home, rp, p, ord) ==
    LET pkg_path == find_pkg_path(f, home, p)
        store_path == join(rp, p)
        store_to_pkg == strip_prefix(pkg_path.path, home)
    IN UNION {
         IF d.res = "err" THEN {Outcome(d.fs, "err_delete", "err", "none")}
         ELSE IF ~pkg_path.some THEN {Outcome(d.fs, "skip", "ok", "none")}
         ELSE IF ~store_to_pkg.some THEN {Outcome(d.fs, "panic_unwrap", "ok", "none")}
         ELSE {Outcome(c.fs, CopyRes(c.res), "ok", c.res) :
                 c \in copy_all(d.fs, pkg_path.path,
                                join(store_path, store_to_pkg.path), ord)}
         : d \in delete_all(f, store_path) }

\* Variant: the result of delete_all is dropped instead of propagated.
store_pkg_ignore_delete_err(f, home, rp, p, ord) ==
    LET pkg_path == find_pkg_path(f, home, p)
    IN IF ~pkg_path.some THEN {Outcome(f, "skip", "none", "none")}
       ELSE LET store_path == join(rp, p)
                store_to_pkg == strip_prefix(pkg_path.path, home)
            IN UNION {
                 IF ~store_to_pkg.some
                 THEN {Outcome(d.fs, "panic_unwrap", d.res, "none")}
                 ELSE {Outcome(c.fs, CopyRes(c.res), d.res, c.res) :
                         c \in copy_all(d.fs, pkg_path.path,
                                        join(store_path, store_to_pkg.path), ord)}
                 : d \in delete_all(f, store_path) }

store_pkg(f, home, rp, p, ord) ==
    LET pkg_path == find_pkg_path(f, home, p)
    IN IF ~pkg_path.some THEN {Outcome(f, "skip", "none", "none")}
       ELSE LET store_path == join(rp, p)
                store_to_pkg == strip_prefix(pkg_path.path, home)
            IN UNION {
                 IF d.res = "err" THEN {Outcome(d.fs, "err_delete", "err", "none")}
                 ELSE IF ~store_to_pkg.some
                 THEN {Outcome(d.fs, "panic_unwrap", "ok", "none")}
                 ELSE {Outcome(c.fs, CopyRes(c.res), "ok", c.res) :
                         c \in copy_all(d.fs, pkg_path.path,
                                        join(store_path, store_to_pkg.path), ord)}
                 : d \in delete_all(f, store_path) }

stage_pkg(f, home, rp, p, ord) ==
    LET store_path == join(rp, p)
    IN IF ~exists(f, store_path) THEN {Outcome(f, "skip", "none", "none")}
       ELSE LET in_store == find_pkg_path(f, store_path, p)
                in_home == find_pkg_path(f, home, p)
                home_to_pkg == IF in_store.some
                               THEN strip_prefix(in_store.path, store_path)
                               ELSE IF in_home.some
                               THEN strip_prefix(in_home.path, home)
                               ELSE NoPath
                unwrapped == (in_store.some \/ in_home.some) => home_to_pkg.some
                deleted == IF home_to_pkg.some
                           THEN delete_all(f, join(home, home_to_pkg.path))
                           ELSE {[fs |-> f, res |-> "none"]}
            IN IF ~unwrapped THEN {Outcome(f, "panic_unwrap", "none", "none")}
               ELSE UNION {
                      IF d.res = "err" THEN {Outcome(d.fs, "err_delete", "err", "none")}
                      ELSE {Outcome(c.fs, CopyRes(c.res), d.res, c.res) :
                              c \in copy_all(d.fs, store_path, home, ord)}
                      : d \in deleted }

(***************************************************************************)
(* The program: main() and run().                                          *)
(***************************************************************************)
HOME == <<"/", "h">>

default_repo(home) == join(home, <<".", "d", "o", "t", "f", "i", "l", "e", "s">>)

\* let repo = cli.repo.clone().unwrap_or_else(|| default_repo(home));
RepoPath == IF repo.some THEN repo.path ELSE default_repo(HOME)

\* Variant: the arms of the match in main are swapped.
ExitCode_swapped(st) ==
    IF st = "ok" THEN 1
    ELSE IF st \in {"err_clap", "err_delete", "err_copy"} THEN 0
    ELSE 101

\* main(): the exit status of a run that ended with the given status
\* (a panic ends the process with status 101).
ExitCode(st) ==
    IF st = "ok" THEN 0
    ELSE IF st \in {"err_clap", "err_delete", "err_copy"} THEN 1
    ELSE 101

Ended == status \notin {"idle", "running"}

\* The content found at a path: relative location -> node (empty when the
\* path does not exist).
TreeAt(f, p) ==
    LET loc == Stat(f, p)
    IN [r \in {SubSeq(q, Len(loc) + 1, Len(q)) : q \in Under(f, loc)} |-> f[loc \o r]]

NoFound == [some |-> FALSE, base |-> <<>>, pkg |-> <<>>, res |-> NoPath]

NoStore == [some |-> FALSE, pkg |-> <<>>, path |-> <<>>, tree |-> <<>>]

\* Package names the command line supplies.
PkgNames ==
    { <<"v">>, <<"w">>, <<>>, <<"v", "/", "x">>, <<"/", "r">> }

\* Cli::try_parse succeeded: a new invocation begins.
Start(c) ==
    /\ status # "running"
    /\ runs < MaxRuns
    /\ cmd' = c
    /\ idx' = 0
    /\ pkg' = <<>>
    /\ status' = "running"
    /\ runs' = runs + 1
    /\ delRes' = "none"
    /\ copyRes' = "none"
    /\ UNCHANGED <<fs, repo, steps, stored, found>>

\* Cli::try_parse()? failed: run returns Error::Clap before touching anything.
ParseError ==
    /\ status # "running"
    /\ runs < MaxRuns
    /\ cmd' = "none"
    /\ idx' = 0
    /\ pkg' = <<>>
    /\ status' = "err_clap"
    /\ runs' = runs + 1
    /\ delRes' = "none"
    /\ copyRes' = "none"
    /\ UNCHANGED <<fs, repo, steps, stored, found>>

\* One iteration of the loop of Command::Store.
StorePkg ==
    /\ status = "running"
    /\ cmd = "store"
    /\ steps < MaxSteps
    /\ steps' = steps + 1
    /\ \E p \in PkgNames, ord \in Orders : \E o \in store_pkg(fs, HOME, RepoPath, p, ord) :
         /\ pkg' = p
         /\ idx' = idx + 1
         /\ fs' = o.fs
         /\ delRes' = o.del
         /\ copyRes' = o.cp
         /\ status' = IF o.res \in {"skip", "done"} THEN "running" ELSE o.res
         /\ stored' = IF o.res = "done"
                      THEN LET e == find_pkg_path(fs, HOME, p).path
                           IN [some |-> TRUE, pkg |-> p, path |-> e, tree |-> TreeAt(fs, e)]
                      ELSE IF o.res = "skip" THEN stored
                      ELSE NoStore
    /\ UNCHANGED <<repo, cmd, runs, found>>

\* One iteration of the loop of Command::Stage.
StagePkg ==
    /\ status = "running"
    /\ cmd = "stage"
    /\ steps < MaxSteps
    /\ steps' = steps + 1
    /\ \E p \in PkgNames, ord \in Orders : \E o \in stage_pkg(fs, HOME, RepoPath, p, ord) :
         /\ pkg' = p
         /\ idx' = idx + 1
         /\ fs' = o.fs
         /\ delRes' = o.del
         /\ copyRes' = o.cp
         /\ status' = IF o.res \in {"skip", "done"} THEN "running" ELSE o.res
         /\ stored' = IF o.res = "skip" THEN stored ELSE NoStore
    /\ UNCHANGED <<repo, cmd, runs, found>>

\* The package list is exhausted: run returns Ok(()).
Finish ==
    /\ status = "running"
    /\ status' = "ok"
    /\ UNCHANGED <<fs, repo, cmd, pkg, idx, runs, steps, delRes, copyRes, stored, found>>

(***************************************************************************)
(* Initial filesystems.                                                    *)
(***************************************************************************)
Mk(pairs) == [q \in {pr[1] : pr \in pairs} |-> (CHOOSE pr \in pairs : pr[1] = q)[2]]

H == <<"h">>
DotConfig == <<".", "c", "o", "n", "f", "i", "g">>
DotDotfiles == <<".", "d", "o", "t", "f", "i", "l", "e", "s">>

Root == { << <<>>, DIR >> }
HomeDir == { << <<H>>, DIR >> }
\* ~/.vrc, a file
HomeVrc == { << <<H, <<".", "v", "r", "c">> >>, "A" >> }
\* ~/.v, a directory with a file x and an empty directory e
HomeV == { << <<H, <<".", "v">> >>, DIR >>,
           << <<H, <<".", "v">>, <<"x">> >>, "B" >>,
           << <<H, <<".", "v">>, <<"e">> >>, DIR >> }
\* ~/.config/v, a file
HomeConfigV == { << <<H, DotConfig>>, DIR >>, << <<H, DotConfig, <<"v">> >>, "B" >> }

HomeParts == {HomeVrc, HomeV, HomeConfigV}

\* A repository at location at: package v backed up under another
\* convention (v/.config/v) and a package w (w/.wrc).
RepoTree(at) ==
    { << at, DIR >>,
      << at \o << <<"v">> >>, DIR >>,
      << at \o << <<"v">>, DotConfig >>, DIR >>,
      << at \o << <<"v">>, DotConfig, <<"v">> >>, "A" >>,
      << at \o << <<"w">> >>, DIR >>,
      << at \o << <<"w">>, <<".", "w", "r", "c">> >>, "B" >> }

SlashR == <<"/", "r">>
RepoArgs == {NoPath, Some(SlashR), Some(join(HOME, DotConfig))}

InitFS(rarg) ==
    LET homes == {HomeDir \cup UNION ps : ps \in SUBSET HomeParts}
        repos == IF ~rarg.some THEN {{}, RepoTree(<<H, DotDotfiles>>)}
                 ELSE IF rarg.path = SlashR THEN {{}, RepoTree(<< <<"r">> >>)}
                 ELSE {{}}
    IN {Mk(Root \cup h \cup r) : h \in homes, r \in repos}
       \cup (IF rarg.some /\ rarg.path = SlashR
             THEN {Mk(Root \cup RepoTree(<< <<"r">> >>))}
             ELSE {})

Init ==
    /\ repo \in RepoArgs
    /\ fs \in InitFS(repo)
    /\ cmd = "none"
    /\ pkg = <<>>
    /\ idx = 0
    /\ status = "idle"
    /\ runs = 0
    /\ steps = 0
    /\ delRes = "none"
    /\ copyRes = "none"
    /\ stored = NoStore
    /\ found = NoFound

Next ==
    \/ \E c \in {"store", "stage"} : Start(c)
    \/ ParseError
    \/ StorePkg
    \/ StagePkg
    \/ Finish

Spec == Init /\ [][Next]_vars

(***************************************************************************)
(* The resolver on its own: find_pkg_path applied to filesystems in which  *)
(* up to MaxPresent of the convention paths of package v exist at once.    *)
(***************************************************************************)
\* The names find_pkg_path looks for below base and below base/.config.
DotNames(p) == <<<<".">> \o p>> \o [i \in 1..Len(suffixes) |-> <<".">> \o p \o suffixes[i]]
ConfigNames(p) == <<p>> \o [i \in 1..Len(suffixes) |-> p \o suffixes[i]]

RECURSIVE UpTo(_, _)
\* The subsets of S with at most k elements.
UpTo(S, k) ==
    IF k = 0 THEN {{}}
    ELSE LET less == UpTo(S, k - 1) IN less \cup {T \cup {x} : T \in less, x \in S}

ResolverFS ==
    LET dots == {<<H, DotNames(<<"v">>)[i]>> : i \in 1..(Len(suffixes) + 1)}
        confs == {<<H, DotConfig, ConfigNames(<<"v">>)[i]>> : i \in 1..(Len(suffixes) + 1)}
    IN {Mk(Root \cup HomeDir \cup {<< <<H, DotConfig>>, DIR >>}
           \cup {<<q, "A">> : q \in present})
        : present \in UpTo(dots \cup confs, MaxPresent)}

InitResolve ==
    /\ fs \in ResolverFS
    /\ repo = NoPath
    /\ cmd = "none"
    /\ pkg = <<>>
    /\ idx = 0
    /\ status = "idle"
    /\ runs = 0
    /\ steps = 0
    /\ delRes = "none"
    /\ copyRes = "none"
    /\ stored = NoStore
    /\ found = NoFound

\* find_pkg_path(base, p) is called; it reads the filesystem only.
Resolve ==
    /\ \E base \in {HOME, join(HOME, DotConfig)}, p \in PkgNames :
         found' = [some |-> TRUE, base |-> base, pkg |-> p,
                   res |-> find_pkg_path(fs, base, p)]
    /\ UNCHANGED <<fs, repo, cmd, pkg, idx, status, runs, steps, delRes, copyRes, stored>>

SpecResolve == InitResolve /\ [][Resolve]_vars

(***************************************************************************)
(* Properties.                                                             *)
(***************************************************************************)
\* The ordered candidate list of the naming conventions.
Priority(base, p) ==
    [i \in 1..Len(DotNames(p)) |-> join(base, DotNames(p)[i])]
    \o [i \in 1..Len(ConfigNames(p)) |-> join(join(base, DotConfig), ConfigNames(p)[i])]

\* The first existing path of the list, if any.
FirstExisting(f, list) ==
    LET hits == {i \in 1..Len(list) : exists(f, list[i])}
    IN IF hits = {} THEN NoPath
       ELSE Some(list[CHOOSE i \in hits : \A j \in hits : i <= j])

\* A step that is one iteration of the store / stage loop.
StoreStep == status = "running" /\ cmd = "store" /\ idx' = idx + 1
StageStep == status = "running" /\ cmd = "stage" /\ idx' = idx + 1

\* The entry E of package p in home.
Entry(f, p) == FirstExisting(f, Priority(HOME, p))

\* The path of e relative to base (e = base/R).
RelTo(e, base) ==
    JoinNames(SubSeq(components(e), Len(components(base)) + 1, Len(components(e))))

\* The stored config of package p: the entry <repo>/p/R.
StoredEntry(f, p) == FirstExisting(f, Priority(join(RepoPath, p), p))

\* In f1 the subtree at location base is exactly a copy of the subtree of
\* f0 at location src, placed at base/rel below the directories on the way.
CopyPlaced(f0, src, f1, base, rel) ==
    LET dst == base \o rel
    IN /\ \A n \in 0..(Len(rel) - 1) :
             /\ base \o SubSeq(rel, 1, n) \in DOMAIN f1
             /\ f1[base \o SubSeq(rel, 1, n)] = DIR
       /\ \A u \in Under(f0, src) :
             /\ dst \o SubSeq(u, Len(src) + 1, Len(u)) \in DOMAIN f1
             /\ f1[dst \o SubSeq(u, Len(src) + 1, Len(u))] = f0[u]
       /\ \A q \in Under(f1, base) :
             \/ IsPrefix(q, dst)
             \/ /\ IsPrefix(dst, q)
                /\ src \o SubSeq(q, Len(dst) + 1, Len(q)) \in DOMAIN f0

\* fs' differs from fs at most by nodes removed at or below location loc.
OnlyRemovedUnder(loc) ==
    /\ DOMAIN fs' \subseteq DOMAIN fs
    /\ \A q \in DOMAIN fs' : fs'[q] = fs[q]
    /\ \A q \in DOMAIN fs \ DOMAIN fs' : IsPrefix(loc, q)

\* C4: find_pkg_path(base, P) returns the first existing path of the ordered
\* candidate list base/.P, base/.P<s>, base/.config/P, base/.config/P<s>
\* (s over rc, .d, .conf, .conf.d, .toml, .xml, .json, .yml, .lua in that
\* order), and absent exactly when none of them exists.
C4_ResolutionByPriority ==
    found.some =>
        /\ found.res = FirstExisting(fs, Priority(found.base, found.pkg))
        /\ (~found.res.some <=>
               \A i \in 1..Len(Priority(found.base, found.pkg)) :
                   ~exists(fs, Priority(found.base, found.pkg)[i]))

\* Two convention paths exist and the resolver returned the one of higher
\* priority, which is a suffixed one.
C4_Witness ==
    /\ found.some /\ found.res.some /\ found.pkg = <<"v">> /\ found.base = HOME
    /\ found.res.path # join(HOME, <<".", "v">>)
    /\ \E i \in 1..Len(Priority(HOME, <<"v">>)) :
          /\ exists(fs, Priority(HOME, <<"v">>)[i])
          /\ Priority(HOME, <<"v">>)[i] # found.res.path

\* C2: when store P completes for a package resolved in home to E = home/R,
\* the subtree <repo>/P is exactly a copy of E placed at <repo>/P/R (same
\* directories, empty ones included, same file contents) and nothing else.
C2_StorePostcondition ==
    [][ \A p \in {pkg'} : \A e \in {Entry(fs, p)} :
          (StoreStep /\ status' = "running" /\ e.some) =>
             CopyPlaced(fs, Stat(fs, e.path), fs', components(join(RepoPath, p)),
                        components(RelTo(e.path, HOME))) ]_vars

\* store v has completed for the directory ~/.v (a file and an empty
\* directory inside) in a repository that held a backup of v under another
\* convention: the copy is there and the old backup is gone.
C2_Witness ==
    /\ cmd = "store" /\ status = "running" /\ stored.some
    /\ stored.pkg = <<"v">> /\ stored.path = join(HOME, <<".", "v">>)
    /\ exists(fs, join(RepoPath, <<"w">>))
    /\ ~exists(fs, join(join(RepoPath, <<"v">>), DotConfig))
    /\ is_dir(fs, join(RepoPath, <<"v", "/", ".", "v", "/", "e">>))
    /\ is_file(fs, join(RepoPath, <<"v", "/", ".", "v", "/", "x">>))

\* C6: a store iteration for a package with no matching path in home, and a
\* stage iteration for a package with no <repo>/P, change nothing on the
\* filesystem and leave the run going; a run that reaches the end of its
\* package list exits with success.
C6_SkipsHarmless ==
    [][ \A p \in {pkg'} :
        /\ ((StoreStep /\ ~Entry(fs, p).some)
             \/ (StageStep /\ ~exists(fs, join(RepoPath, p))))
            => (fs' = fs /\ status' = "running" /\ delRes' = "none" /\ copyRes' = "none")
        /\ (status = "running" /\ idx' = idx /\ status' # "running")
            => (status' = "ok" /\ ExitCode(status') = 0) ]_vars

\* The first package of a store run was skipped (w has no config in home,
\* nothing was deleted or copied) and the run goes on.
C6_Witness ==
    /\ cmd = "store" /\ status = "running" /\ idx = 1 /\ pkg = <<"w">>
    /\ delRes = "none" /\ copyRes = "none"
    /\ ~Entry(fs, <<"w">>).some
    /\ exists(fs, join(RepoPath, <<"w">>))

\* Where the iteration for package p deletes.
DeleteTarget(c, p) ==
    IF c = "store" THEN components(join(RepoPath, p))
    ELSE LET in_repo == {StoredEntry(fs, p)}
         IN IF \E s \in in_repo : s.some
            THEN CHOOSE loc \in {components(join(HOME, RelTo(s.path, join(RepoPath, p))))
                                   : s \in in_repo} : TRUE
            ELSE components(Entry(fs, p).path)

\* C8: when delete_all returns an error in an iteration, nothing is copied
\* in it, the run ends with a failure status, the filesystem differs from
\* before only by what the failed delete removed below its target (earlier
\* packages keep their results), and no later package is processed.
C8_FailedDeleteAborts ==
    [][ /\ ((StoreStep \/ StageStep) /\ delRes' = "err")
            => /\ copyRes' = "none"
               /\ status' = "err_delete"
               /\ ExitCode(status') # 0
               /\ \A p \in {pkg'} : \A loc \in {DeleteTarget(cmd, p)} :
                     OnlyRemovedUnder(loc)
        /\ status = "err_delete" => (fs' = fs /\ idx' # idx + 1) ]_vars

\* The delete of the second package of a run failed.
C8_Witness == status = "err_delete" /\ idx = 2 /\ delRes = "err" /\ copyRes = "none"

C9_CopyPreconditionsHold == copyRes \notin {"panic_dest", "panic_src"}

\* C3: staging P when <repo>/P holds a stored config at <repo>/P/R and the
\* existing home directory has no entry at home/R completes and creates
\* home/R with the stored content.
C3_StageRestores ==
    [][ \A p \in {pkg'} : \A s \in {StoredEntry(fs, p)} :
        \A target \in {join(HOME, RelTo(s.path, join(RepoPath, p)))} :
          (StageStep /\ s.some /\ is_dir(fs, HOME) /\ ~exists(fs, target))
          => /\ status' = "running"
             /\ TreeAt(fs', target) = TreeAt(fs, s.path) ]_vars

\* C1: staging P right after a completed store of P (repository outside E,
\* no I/O error) completes and leaves at the path of E the content E had
\* before the store.
C1_RoundTrip ==
    [][ (/\ StageStep
         /\ stored.some /\ stored.pkg = pkg'
         /\ ~IsPrefix(components(stored.path), components(RepoPath))
         /\ delRes' # "err")
        => /\ status' = "running"
           /\ TreeAt(fs', stored.path) = stored.tree ]_vars

\* C5: a store iteration for a package resolved in home to E leaves E and
\* everything under it unchanged.
C5_StoreLeavesEntry ==
    [][ \A p \in {pkg'} : \A e \in {Entry(fs, p)} :
          (StoreStep /\ e.some) => TreeAt(fs', e.path) = TreeAt(fs, e.path) ]_vars

\* C10: a store iteration for package P leaves the stored subtree <repo>/Q
\* of every other package Q as it was.
C10_PackagesIsolated ==
    [][ StoreStep =>
          \A q \in {<<"v">>, <<"w">>} \ {pkg'} :
              TreeAt(fs', join(RepoPath, q)) = TreeAt(fs, join(RepoPath, q)) ]_vars

====
